---------------------------- MODULE Spec2Model ----------------------------
(***************************************************************************)
(* rustrimmer: FASTQ quality trimmer.                                      *)
(*                                                                         *)
(*   trim_record (src/src/trim.rs)      the trimming function              *)
(*   main, paired arm (src/src/main.rs) the lock-step loop over R1 and R2  *)
(*   open_input (src/src/io_utils.rs)   gzip detection on a buffered read  *)
(*                                                                         *)
(* Indices are 0-based as in the Rust source; At and Slice translate them  *)
(* to TLA+ sequences.                                                      *)
(***************************************************************************)
EXTENDS Integers, Sequences, FiniteSets, TLC

(***************************************************************************)
(* Bounds of the model.                                                    *)
(***************************************************************************)
MaxLen == 4
MaxThr == 3
MaxMinLen == 3

(* Phred+33 offset, trim.rs line 18. *)
PhredOffset == 33

(* Quality bytes drawn for the reads: 32 is below the offset (its score     *)
(* saturates at 0), 34 and 38 give the scores 1 and 5.                      *)
QualBytes == {32, 34, 38}

(* Bases; a read's sequence is position-tagged so that a slice identifies   *)
(* the indices it was cut from.                                             *)
Bases == <<"A", "C", "G", "T", "N", "a", "c", "g", "t", "n">>

VARIABLES
    \* ---- the trimming parameters (args.qual, args.min_len, args.window)
    qual_thr, min_len, window,
    \* ---- one call of trim_record, and a second call on its result
    qual, seq, tpc, res, res2,
    \* ---- main, paired arm: the two record streams and their iterators
    fq1, fq2, err1, err2, it1, it2,
    \* ---- the three FASTQ writers
    w_r1, w_r2, w_s,
    \* ---- the counters of main.rs lines 161-166
    pairs_total, pairs_kept, pairs_dropped, singletons, read_r1, read_r2,
    \* ---- position in main, its result, the mismatch warning, and the
    \*      match arms the loop has taken so far
    ppc, exit_res, warned, arms,
    \* ---- open_input: the origin and how it is reached, the inner reader's
    \*      position, the BufReader's unread buffer, the detection result,
    \*      the bytes handed on by the BufReader, and the position in the call
    origin, path_kind, origin_ok, inner_pos, br_buf, is_gz, delivered, opc,
    \* ---- main, start-up: the command line (which of input, --p1, --p2 and
    \*      --output are given, --gz, --zstd), whether the inputs can be
    \*      opened and the outputs created, the I/O attempted so far, the
    \*      position in main and the process's exit status
    has_input, has_p1, has_p2, has_output, cli_gz, cli_zstd,
    in1_ok, in2_ok, out_ok, io_log, mpc, m_exit,
    \* ---- main, single-end arm: the writer and the counters of lines 89-92
    fqw, kept, dropped, read_count, base_count

argVars == <<qual_thr, min_len, window>>
trimVars == <<qual, seq, tpc, res, res2>>
streamVars == <<fq1, fq2, err1, err2>>
sinkVars == <<w_r1, w_r2, w_s>>
counterVars == <<pairs_total, pairs_kept, pairs_dropped, singletons, read_r1, read_r2>>
pairVars == <<streamVars, it1, it2, sinkVars, counterVars, ppc, exit_res, warned, arms>>
openVars == <<origin, path_kind, origin_ok, inner_pos, br_buf, is_gz, delivered, opc>>
cmdVars == <<has_input, has_p1, has_p2, has_output, cli_gz, cli_zstd, in1_ok, in2_ok, out_ok>>
cliVars == <<cmdVars, io_log, mpc, m_exit>>
singleVars == <<fqw, kept, dropped, read_count, base_count>>
vars == <<argVars, trimVars, pairVars, openVars, cliVars, singleVars>>

----------------------------------------------------------------------------
(***************************************************************************)
(* Helpers for 0-based indexing.                                           *)
(***************************************************************************)
At(s, i) == s[i + 1]
Slice(s, a, b) == SubSeq(s, a + 1, b + 1)

SeqsUpTo(S, n) == UNION {[1..k -> S] : k \in 0..n}
TaggedSeq(n) == [k \in 1..n |-> Bases[k]]

None == [tag |-> "None", seq |-> <<>>, qual |-> <<>>]
Panic == [tag |-> "Panic", seq |-> <<>>, qual |-> <<>>]
Some(s, q) == [tag |-> "Some", seq |-> s, qual |-> q]
NoCall == [tag |-> "NoCall", seq |-> <<>>, qual |-> <<>>]

----------------------------------------------------------------------------
(***************************************************************************)
(* trim_record, src/src/trim.rs                                            *)
(***************************************************************************)

(* u8::saturating_sub(33) *)
MutScoreNoSaturate(b) == b - PhredOffset
Score(b) == IF b >= PhredOffset THEN b - PhredOffset ELSE 0

(* lines 17-23: while start_idx <= end_idx { if q >= thr break; start += 1 } *)
RECURSIVE StartLoop(_, _, _, _)
StartLoop(q, thr, s, e) ==
    IF s <= e
    THEN IF Score(At(q, s)) >= thr THEN s ELSE StartLoop(q, thr, s + 1, e)
    ELSE s

(* lines 25-34: while end_idx >= start_idx { if q >= thr break;            *)
(*              if end_idx == 0 break; end_idx -= 1 }                       *)
RECURSIVE EndLoop(_, _, _, _)
EndLoop(q, thr, s, e) ==
    IF e >= s
    THEN IF Score(At(q, e)) >= thr THEN e
         ELSE IF e = 0 THEN e
         ELSE EndLoop(q, thr, s, e - 1)
    ELSE e

(* lines 12-34: the single-base branch (window <= 1) *)
MutSingleBaseKeepsLowEnd(q, thr) ==
    LET s == StartLoop(q, thr, 0, Len(q) - 1)
    IN  [start |-> s, end |-> Len(q) - 1]
SingleBaseBounds(q, thr) ==
    LET s == StartLoop(q, thr, 0, Len(q) - 1)
    IN  [start |-> s, end |-> EndLoop(q, thr, s, Len(q) - 1)]

(* lines 40-46: the fallback's copy of the start loop *)
RECURSIVE FbStartLoop(_, _, _, _)
FbStartLoop(q, thr, s, e) ==
    IF s <= e
    THEN IF Score(At(q, s)) >= thr THEN s ELSE FbStartLoop(q, thr, s + 1, e)
    ELSE s

(* lines 48-57: the fallback's copy of the end loop *)
RECURSIVE FbEndLoop(_, _, _, _)
FbEndLoop(q, thr, s, e) ==
    IF e >= s
    THEN IF Score(At(q, e)) >= thr THEN e
         ELSE IF e = 0 THEN e
         ELSE FbEndLoop(q, thr, s, e - 1)
    ELSE e

(* lines 38-57: window > read length falls back to single-base trimming *)
MutFallbackKeepsAll(q, thr) == [start |-> 0, end |-> Len(q) - 1]
FallbackBounds(q, thr) ==
    LET s == FbStartLoop(q, thr, 0, Len(q) - 1)
    IN  [start |-> s, end |-> FbEndLoop(q, thr, s, Len(q) - 1)]

(* line 60: integer scores *)
Scores(q) == [k \in 1..Len(q) |-> Score(q[k])]

(* lines 61-65: prefix sums, ps[0] = 0, ps[k] = ps[k-1] + scores[k-1].     *)
(* The sums are u32 in the source; a read would need more than 16 million  *)
(* bases to wrap them, so they are plain integers here.                    *)
RECURSIVE PrefixSums(_, _)
PrefixSums(sc, k) ==
    IF k = 0 THEN <<0>>
    ELSE LET ps == PrefixSums(sc, k - 1)
         IN  Append(ps, ps[Len(ps)] + sc[k])

(* lines 72-78: for i in 0..=n-win, first i whose window mean >= thr; -1 is None *)
RECURSIVE FindLeft(_, _, _, _, _)
FindLeft(ps, n, win, thr, i) ==
    IF i > n - win THEN -1
    ELSE IF (At(ps, i + win) - At(ps, i)) \div win >= thr THEN i
    ELSE FindLeft(ps, n, win, thr, i + 1)

(* lines 87-94: for j in win-1..n, the last j whose window mean >= thr; -1 is None *)
RECURSIVE FindRight(_, _, _, _, _, _)
FindRight(ps, n, win, thr, j, found) ==
    IF j >= n THEN found
    ELSE LET start == j + 1 - win
             sum == At(ps, j + 1) - At(ps, start)
         IN  FindRight(ps, n, win, thr, j + 1,
                       IF sum \div win >= thr THEN j ELSE found)

(* lines 59-100: the windowed branch (1 < window <= n) *)
MutWindowAllBases(q, thr, win) ==
    LET n == Len(q)
        ok(i) == \A k \in i..(i + win - 1) : Score(At(q, k)) >= thr
        starts == {i \in 0..(n - win) : ok(i)}
    IN  IF starts = {} THEN [start |-> n, end |-> 0]
        ELSE [start |-> CHOOSE i \in starts : \A k \in starts : i <= k,
              end |-> (CHOOSE i \in starts : \A k \in starts : i >= k) + win - 1]
MutWindowRightIsStart(q, thr, win) ==
    LET n == Len(q)
        ps == PrefixSums(Scores(q), n)
        fl == FindLeft(ps, n, win, thr, 0)
        fr == FindRight(ps, n, win, thr, win - 1, -1)
    IN  [start |-> IF fl # -1 THEN fl ELSE n,
         end |-> IF fr # -1 THEN fr + 1 - win ELSE 0]
WindowBounds(q, thr, win) ==
    LET n == Len(q)
        ps == PrefixSums(Scores(q), n)
        fl == FindLeft(ps, n, win, thr, 0)
        fr == FindRight(ps, n, win, thr, win - 1, -1)
    IN  [start |-> IF fl # -1 THEN fl ELSE n,
         end |-> IF fr # -1 THEN fr ELSE 0]

(* lines 104-114: the drop tests and the two slices.  seq[start..=end] is  *)
(* taken first and panics when end is not an index of seq.                 *)
MutFinishNoMinLen(q, s, b, minlen) ==
    IF b.start > b.end THEN None
    ELSE IF b.end >= Len(s) THEN Panic
    ELSE Some(Slice(s, b.start, b.end), Slice(q, b.start, b.end))
MutFinishExclusiveEnd(q, s, b, minlen) ==
    IF b.start >= b.end THEN None
    ELSE IF b.end - b.start < minlen THEN None
    ELSE IF b.end > Len(s) THEN Panic
    ELSE Some(Slice(s, b.start, b.end - 1), Slice(q, b.start, b.end - 1))
Finish(q, s, b, minlen) ==
    IF b.start > b.end THEN None
    ELSE IF b.end - b.start + 1 < minlen THEN None
    ELSE IF b.end >= Len(s) THEN Panic
    ELSE Some(Slice(s, b.start, b.end), Slice(q, b.start, b.end))

(* lines 1-115 *)
trim_record(q, s, thr, minlen, win) ==
    IF Len(q) = 0 \/ Len(s) = 0 THEN None
    ELSE IF win <= 1 THEN Finish(q, s, SingleBaseBounds(q, thr), minlen)
    ELSE IF win > Len(q) THEN Finish(q, s, FallbackBounds(q, thr), minlen)
    ELSE Finish(q, s, WindowBounds(q, thr, win), minlen)

----------------------------------------------------------------------------
(***************************************************************************)
(* A call of trim_record on bounded inputs, and a second call on its       *)
(* result with the same parameters.                                        *)
(***************************************************************************)
SeqLens(n) == {k \in {n - 1, n, n + 1} : k >= 0}

(* the paired run is not started *)
PairIdle ==
    /\ fq1 = <<>> /\ fq2 = <<>> /\ err1 = FALSE /\ err2 = FALSE
    /\ it1 = 0 /\ it2 = 0
    /\ w_r1 = <<>> /\ w_r2 = <<>> /\ w_s = <<>>
    /\ pairs_total = 0 /\ pairs_kept = 0 /\ pairs_dropped = 0
    /\ singletons = 0 /\ read_r1 = 0 /\ read_r2 = 0
    /\ ppc = "idle" /\ exit_res = "-" /\ warned = FALSE /\ arms = <<>>

(* main's start-up is not observed *)
CliIdle ==
    /\ has_input = FALSE /\ has_p1 = FALSE /\ has_p2 = FALSE /\ has_output = FALSE
    /\ cli_gz = FALSE /\ cli_zstd = FALSE
    /\ in1_ok = TRUE /\ in2_ok = TRUE /\ out_ok = TRUE
    /\ io_log = <<>> /\ mpc = "idle" /\ m_exit = "-"

(* the single-end loop is not started *)
SingleIdle ==
    /\ fqw = <<>> /\ kept = 0 /\ dropped = 0 /\ read_count = 0 /\ base_count = 0

(* open_input is not called *)
OpenIdle ==
    /\ origin = <<>> /\ path_kind = "file" /\ origin_ok = TRUE /\ inner_pos = 0
    /\ br_buf = <<>> /\ is_gz = FALSE /\ delivered = <<>> /\ opc = "idle"

(* no call of trim_record is being observed *)
TrimIdle ==
    /\ qual = <<>> /\ seq = <<>> /\ tpc = "idle" /\ res = NoCall /\ res2 = NoCall

TrimInit ==
    /\ qual \in SeqsUpTo(QualBytes, MaxLen)
    /\ \E k \in SeqLens(Len(qual)) : seq = TaggedSeq(k)
    /\ qual_thr \in 0..MaxThr
    /\ min_len \in 0..MaxMinLen
    /\ window \in 0..(MaxLen + 1)
    /\ tpc = "call"
    /\ res = NoCall
    /\ res2 = NoCall
    /\ PairIdle
    /\ OpenIdle
    /\ CliIdle
    /\ SingleIdle

TrimCall ==
    /\ tpc = "call"
    /\ res' = trim_record(qual, seq, qual_thr, min_len, window)
    /\ tpc' = "ret"
    /\ UNCHANGED <<cliVars, singleVars, argVars, qual, seq, res2, pairVars, openVars>>

Retrim ==
    /\ tpc = "ret"
    /\ res.tag = "Some"
    /\ res2' = trim_record(res.qual, res.seq, qual_thr, min_len, window)
    /\ tpc' = "ret2"
    /\ UNCHANGED <<cliVars, singleVars, argVars, qual, seq, res, pairVars, openVars>>

TrimNext == TrimCall \/ Retrim

TrimSpec == TrimInit /\ [][TrimNext]_vars

----------------------------------------------------------------------------
(***************************************************************************)
(* main, paired arm: src/src/main.rs lines 113-256                         *)
(*                                                                         *)
(* A stream is the sequence of records its fastq::Reader yields, followed  *)
(* (err) or not by a parse error.  Records are well-formed (sequence and   *)
(* quality of equal length): the record layout is the parser's business.   *)
(* Every write on a sink may fail; `?` then returns the error from main.   *)
(***************************************************************************)
MaxReads == 3

(* the quality strings of the records drawn for the streams *)
PoolQuals == {<<32, 38, 38>>, <<32, 32, 38>>}

(* the trimming parameters drawn for a paired run *)
PairArgs == {[thr |-> 2, min_len |-> 2, window |-> 1],
             [thr |-> 2, min_len |-> 1, window |-> 2]}

(* which write of a row fails: 0 is none *)
WriteFaults == {0, 1, 2}

Stream(side, quals) ==
    [k \in 1..Len(quals) |->
        [id |-> <<side, k>>, qual |-> quals[k], seq |-> TaggedSeq(Len(quals[k]))]]

NoRec == [id |-> <<>>, qual |-> <<>>, seq |-> <<>>]

(* line 169: iter.next() at position it: Some(Ok(rec)), Some(Err(e)) or None *)
NextItem(fq, err, it) ==
    IF it < Len(fq) THEN [some |-> TRUE, ok |-> TRUE, rec |-> fq[it + 1]]
    ELSE IF it = Len(fq) /\ err THEN [some |-> TRUE, ok |-> FALSE, rec |-> NoRec]
    ELSE [some |-> FALSE, ok |-> FALSE, rec |-> NoRec]

(* fastq::Writer::write(rec.id(), rec.desc(), &seq, &qual) *)
Entry(rec, t) == [id |-> rec.id, seq |-> t.seq, qual |-> t.qual]

Delta(r1, r2, s, nkept, ndropped, nsingle, result) ==
    [r1 |-> r1, r2 |-> r2, s |-> s, kept |-> nkept, dropped |-> ndropped,
     single |-> nsingle, result |-> result]

(* lines 193-210: match (t1, t2); what the row appends to each sink and    *)
(* adds to each counter                                                    *)
MutRouteSingletonToOwnSink(rec1, rec2, t1, t2, fault) ==
    IF t1.tag = "Panic" \/ t2.tag = "Panic"
    THEN Delta(<<>>, <<>>, <<>>, 0, 0, 0, "Panic")
    ELSE IF t1.tag = "Some" /\ t2.tag = "Some"
    THEN IF fault = 1 THEN Delta(<<>>, <<>>, <<>>, 0, 0, 0, "WriteErr")
         ELSE IF fault = 2
         THEN Delta(<<Entry(rec1, t1)>>, <<>>, <<>>, 0, 0, 0, "WriteErr")
         ELSE Delta(<<Entry(rec1, t1)>>, <<Entry(rec2, t2)>>, <<>>, 1, 0, 0, "-")
    ELSE IF t1.tag = "Some"
    THEN IF fault = 1 THEN Delta(<<>>, <<>>, <<>>, 0, 0, 0, "WriteErr")
         ELSE Delta(<<Entry(rec1, t1)>>, <<>>, <<>>, 0, 0, 1, "-")
    ELSE IF t2.tag = "Some"
    THEN IF fault = 1 THEN Delta(<<>>, <<>>, <<>>, 0, 0, 0, "WriteErr")
         ELSE Delta(<<>>, <<Entry(rec2, t2)>>, <<>>, 0, 0, 1, "-")
    ELSE Delta(<<>>, <<>>, <<>>, 0, 1, 0, "-")
RouteBoth(rec1, rec2, t1, t2, fault) ==
    IF t1.tag = "Panic" \/ t2.tag = "Panic"
    THEN Delta(<<>>, <<>>, <<>>, 0, 0, 0, "Panic")
    ELSE IF t1.tag = "Some" /\ t2.tag = "Some"
    THEN IF fault = 1 THEN Delta(<<>>, <<>>, <<>>, 0, 0, 0, "WriteErr")
         ELSE IF fault = 2
         THEN Delta(<<Entry(rec1, t1)>>, <<>>, <<>>, 0, 0, 0, "WriteErr")
         ELSE Delta(<<Entry(rec1, t1)>>, <<Entry(rec2, t2)>>, <<>>, 1, 0, 0, "-")
    ELSE IF t1.tag = "Some"
    THEN IF fault = 1 THEN Delta(<<>>, <<>>, <<>>, 0, 0, 0, "WriteErr")
         ELSE Delta(<<>>, <<>>, <<Entry(rec1, t1)>>, 0, 0, 1, "-")
    ELSE IF t2.tag = "Some"
    THEN IF fault = 1 THEN Delta(<<>>, <<>>, <<>>, 0, 0, 0, "WriteErr")
         ELSE Delta(<<>>, <<>>, <<Entry(rec2, t2)>>, 0, 0, 1, "-")
    ELSE Delta(<<>>, <<>>, <<>>, 0, 1, 0, "-")

(* lines 216-225 and 230-239: a record with no partner goes to the         *)
(* singleton sink if it survives trimming                                  *)
MutRouteAloneToR1(rec, t, fault) ==
    IF t.tag = "Panic" THEN Delta(<<>>, <<>>, <<>>, 0, 0, 0, "Panic")
    ELSE IF t.tag = "Some"
    THEN IF fault = 1 THEN Delta(<<>>, <<>>, <<>>, 0, 0, 0, "WriteErr")
         ELSE Delta(<<Entry(rec, t)>>, <<>>, <<>>, 0, 0, 1, "-")
    ELSE Delta(<<>>, <<>>, <<>>, 0, 0, 0, "-")
RouteAlone(rec, t, fault) ==
    IF t.tag = "Panic" THEN Delta(<<>>, <<>>, <<>>, 0, 0, 0, "Panic")
    ELSE IF t.tag = "Some"
    THEN IF fault = 1 THEN Delta(<<>>, <<>>, <<>>, 0, 0, 0, "WriteErr")
         ELSE Delta(<<>>, <<>>, <<Entry(rec, t)>>, 0, 0, 1, "-")
    ELSE Delta(<<>>, <<>>, <<>>, 0, 0, 0, "-")

(* line 250: if read_r1 != read_r2 { warning } *)
MutWarnOnlyWhenR1Longer(r1, r2) == r1 > r2
MismatchWarning(r1, r2) == r1 # r2

Trim(rec) == trim_record(rec.qual, rec.seq, qual_thr, min_len, window)

(* the sinks and counters after a row, and where main goes next *)
MutApplyPrepends(d) ==
    /\ w_r1' = d.r1 \o w_r1
    /\ w_r2' = d.r2 \o w_r2
    /\ w_s' = d.s \o w_s
    /\ pairs_kept' = pairs_kept + d.kept
    /\ pairs_dropped' = pairs_dropped + d.dropped
    /\ singletons' = singletons + d.single
    /\ exit_res' = d.result
    /\ ppc' = IF d.result = "-" THEN "loop" ELSE "exit"
Apply(d) ==
    /\ w_r1' = w_r1 \o d.r1
    /\ w_r2' = w_r2 \o d.r2
    /\ w_s' = w_s \o d.s
    /\ pairs_kept' = pairs_kept + d.kept
    /\ pairs_dropped' = pairs_dropped + d.dropped
    /\ singletons' = singletons + d.single
    /\ exit_res' = d.result
    /\ ppc' = IF d.result = "-" THEN "loop" ELSE "exit"

(* `?` on a stream error: main returns it *)
ReadFails ==
    /\ exit_res' = "ReadErr"
    /\ ppc' = "exit"
    /\ UNCHANGED <<sinkVars, counterVars>>

PairInit ==
    /\ \E a \in PairArgs :
          qual_thr = a.thr /\ min_len = a.min_len /\ window = a.window
    /\ \E q1 \in SeqsUpTo(PoolQuals, MaxReads), q2 \in SeqsUpTo(PoolQuals, MaxReads) :
          fq1 = Stream("R1", q1) /\ fq2 = Stream("R2", q2)
    /\ err1 \in BOOLEAN
    /\ err2 \in BOOLEAN
    /\ it1 = 0 /\ it2 = 0
    /\ w_r1 = <<>> /\ w_r2 = <<>> /\ w_s = <<>>
    /\ pairs_total = 0 /\ pairs_kept = 0 /\ pairs_dropped = 0
    /\ singletons = 0 /\ read_r1 = 0 /\ read_r2 = 0
    /\ ppc = "loop" /\ exit_res = "-" /\ warned = FALSE /\ arms = <<>>
    /\ TrimIdle
    /\ OpenIdle
    /\ CliIdle
    /\ SingleIdle

(* lines 171-211: (Some(r1_res), Some(r2_res)) *)
ArmBoth ==
    /\ ppc = "loop"
    /\ LET n1 == NextItem(fq1, err1, it1)
           n2 == NextItem(fq2, err2, it2)
       IN  /\ n1.some /\ n2.some
           /\ it1' = it1 + 1
           /\ it2' = it2 + 1
           /\ arms' = Append(arms, "Both")
           /\ IF ~n1.ok \/ ~n2.ok
              THEN ReadFails
              ELSE /\ read_r1' = read_r1 + 1
                   /\ read_r2' = read_r2 + 1
                   /\ pairs_total' = pairs_total + 1
                   /\ \E fault \in WriteFaults, t1 \in {Trim(n1.rec)}, t2 \in {Trim(n2.rec)} :
                         \E d \in {RouteBoth(n1.rec, n2.rec, t1, t2, fault)} : Apply(d)
    /\ UNCHANGED <<cliVars, singleVars, openVars, argVars, trimVars, streamVars, warned>>

(* lines 212-226: (Some(r1_res), None) *)
ArmAOnly ==
    /\ ppc = "loop"
    /\ LET n1 == NextItem(fq1, err1, it1)
           n2 == NextItem(fq2, err2, it2)
       IN  /\ n1.some /\ ~n2.some
           /\ it1' = it1 + 1
           /\ arms' = Append(arms, "AOnly")
           /\ IF ~n1.ok
              THEN ReadFails
              ELSE /\ read_r1' = read_r1 + 1
                   /\ UNCHANGED <<read_r2, pairs_total>>
                   /\ \E fault \in {0, 1}, t1 \in {Trim(n1.rec)} :
                         \E d \in {RouteAlone(n1.rec, t1, fault)} : Apply(d)
    /\ UNCHANGED <<cliVars, singleVars, openVars, argVars, trimVars, streamVars, it2, warned>>

(* lines 227-240: (None, Some(r2_res)) *)
ArmBOnly ==
    /\ ppc = "loop"
    /\ LET n1 == NextItem(fq1, err1, it1)
           n2 == NextItem(fq2, err2, it2)
       IN  /\ ~n1.some /\ n2.some
           /\ it2' = it2 + 1
           /\ arms' = Append(arms, "BOnly")
           /\ IF ~n2.ok
              THEN ReadFails
              ELSE /\ read_r2' = read_r2 + 1
                   /\ UNCHANGED <<read_r1, pairs_total>>
                   /\ \E fault \in {0, 1}, t2 \in {Trim(n2.rec)} :
                         \E d \in {RouteAlone(n2.rec, t2, fault)} : Apply(d)
    /\ UNCHANGED <<cliVars, singleVars, openVars, argVars, trimVars, streamVars, it1, warned>>

MutArmBreakWhenEitherEnds ==
    /\ ppc = "loop"
    /\ ~NextItem(fq1, err1, it1).some \/ ~NextItem(fq2, err2, it2).some
    /\ ppc' = "report"
    /\ UNCHANGED <<cliVars, singleVars, openVars, argVars, trimVars, streamVars, it1, it2, sinkVars, counterVars,
                   exit_res, warned, arms>>

(* line 170: (None, None) => break *)
ArmBreak ==
    /\ ppc = "loop"
    /\ ~NextItem(fq1, err1, it1).some
    /\ ~NextItem(fq2, err2, it2).some
    /\ ppc' = "report"
    /\ UNCHANGED <<cliVars, singleVars, openVars, argVars, trimVars, streamVars, it1, it2, sinkVars, counterVars,
                   exit_res, warned, arms>>

(* lines 244-266: print the counters, warn on a mismatch, return Ok(()) *)
Report ==
    /\ ppc = "report"
    /\ warned' = MismatchWarning(read_r1, read_r2)
    /\ exit_res' = "Ok"
    /\ ppc' = "exit"
    /\ UNCHANGED <<cliVars, singleVars, openVars, argVars, trimVars, streamVars, it1, it2, sinkVars, counterVars, arms>>

PairNext == ArmBoth \/ ArmAOnly \/ ArmBOnly \/ ArmBreak \/ Report

Spec == PairInit /\ [][PairNext]_vars

----------------------------------------------------------------------------
(* C1: in a row where both streams yield a record, the two trim outcomes   *)
(* decide the routing: both kept, one record goes to the R1 sink and one   *)
(* to the R2 sink (R1's read to R1, R2's to R2) and pairs_kept grows by 1; *)
(* exactly one kept, that trimmed record goes to the singleton sink,       *)
(* nothing to R1 or R2, and singletons grows by 1; neither kept, nothing   *)
(* is written and pairs_dropped grows by 1.                                *)
BothRowCompleted ==
    /\ ppc = "loop"
    /\ it1 < Len(fq1)
    /\ it2 < Len(fq2)
    /\ ppc' = "loop"

BothRowRouting ==
    LET rec1 == fq1[it1 + 1]
        rec2 == fq2[it2 + 1]
        t1 == Trim(rec1)
        t2 == Trim(rec2)
        k1 == t1.tag = "Some"
        k2 == t2.tag = "Some"
    IN  /\ (k1 /\ k2) =>
              /\ w_r1' = Append(w_r1, [id |-> <<"R1", it1 + 1>>, seq |-> t1.seq, qual |-> t1.qual])
              /\ w_r2' = Append(w_r2, [id |-> <<"R2", it2 + 1>>, seq |-> t2.seq, qual |-> t2.qual])
              /\ w_s' = w_s
              /\ pairs_kept' = pairs_kept + 1
              /\ UNCHANGED <<singletons, pairs_dropped>>
        /\ (k1 /\ ~k2) =>
              /\ w_s' = Append(w_s, [id |-> <<"R1", it1 + 1>>, seq |-> t1.seq, qual |-> t1.qual])
              /\ UNCHANGED <<w_r1, w_r2, pairs_kept, pairs_dropped>>
              /\ singletons' = singletons + 1
        /\ (~k1 /\ k2) =>
              /\ w_s' = Append(w_s, [id |-> <<"R2", it2 + 1>>, seq |-> t2.seq, qual |-> t2.qual])
              /\ UNCHANGED <<w_r1, w_r2, pairs_kept, pairs_dropped>>
              /\ singletons' = singletons + 1
        /\ (~k1 /\ ~k2) =>
              /\ UNCHANGED <<w_r1, w_r2, w_s, pairs_kept, singletons>>
              /\ pairs_dropped' = pairs_dropped + 1

PairedRouting == [][BothRowCompleted => BothRowRouting]_vars

(* three Both rows have completed, one of each kind: a kept pair, a        *)
(* singleton out of a pair, and a dropped pair                             *)
PairedRoutingWitness ==
    /\ ppc = "loop"
    /\ arms = <<"Both", "Both", "Both">>
    /\ pairs_kept = 1
    /\ Len(w_r1) = 1
    /\ Len(w_r2) = 1
    /\ singletons = 1
    /\ Len(w_s) = 1
    /\ pairs_dropped = 1

(* C2: for streams of m and n records the loop takes min(m, n) Both arms   *)
(* and then exactly m - n A-only arms when m > n (never a B-only arm),     *)
(* exactly n - m B-only arms when n > m, and none of either when m = n;    *)
(* the mismatch warning is produced after the loop, exactly when m # n,    *)
(* and a mismatch never keeps the run from returning Ok: the loop takes    *)
(* at most max(m, n) arms, and a run that exits without a failed write     *)
(* exits Ok.                                                               *)
ExpectedArms(m, n) ==
    [k \in 1..(IF m > n THEN m ELSE n) |->
        IF k <= m /\ k <= n THEN "Both" ELSE IF m > n THEN "AOnly" ELSE "BOnly"]

PairedMismatch ==
    LET m == Len(fq1)
        n == Len(fq2)
        longest == IF m > n THEN m ELSE n
    IN  /\ (ppc = "exit" /\ exit_res = "Ok") =>
              /\ arms = ExpectedArms(m, n)
              /\ warned = (m # n)
        /\ ppc \in {"loop", "report"} => ~warned
        /\ (~err1 /\ ~err2) =>
              /\ Len(arms) <= longest
              /\ \A k \in 1..Len(arms) : arms[k] = ExpectedArms(m, n)[k]
              /\ (ppc = "exit" /\ exit_res # "WriteErr") => exit_res = "Ok"

(* a finished run on R1 two records longer than a non-empty R2 *)
PairedMismatchWitness ==
    /\ ppc = "exit"
    /\ exit_res = "Ok"
    /\ Len(fq2) >= 1
    /\ Len(fq1) = Len(fq2) + 2
    /\ warned
    /\ singletons >= 1

----------------------------------------------------------------------------
(***************************************************************************)
(* The boundaries as section 4.2 of the specification defines them,        *)
(* computed directly (no cursor loops, no prefix sums).                    *)
(***************************************************************************)
MinOf(S) == CHOOSE x \in S : \A y \in S : x <= y
MaxOf(S) == CHOOSE x \in S : \A y \in S : x >= y

WellFormed == Len(seq) = Len(qual)
Returned == tpc \in {"ret", "ret2"}

(* indices whose score reaches the threshold *)
GoodIdx(q, thr) == {i \in 0..(Len(q) - 1) : Score(At(q, i)) >= thr}

(* sum of the scores of q[i..i+w) *)
RECURSIVE WinSum(_, _, _)
WinSum(q, i, w) == IF w = 0 THEN 0 ELSE Score(At(q, i)) + WinSum(q, i + 1, w - 1)

(* window starts, and window ends, whose floor mean reaches the threshold *)
WinStarts(q, thr, w) == {i \in 0..(Len(q) - w) : WinSum(q, i, w) \div w >= thr}
WinEnds(q, thr, w) == {j \in (w - 1)..(Len(q) - 1) : WinSum(q, j - w + 1, w) \div w >= thr}

(* outcome for a well-formed read given the defined [left, right] *)
DefOutcome(q, s, minlen, lefts, rights) ==
    IF lefts = {} \/ rights = {} THEN None
    ELSE LET left == MinOf(lefts)
             right == MaxOf(rights)
         IN  IF right - left + 1 < minlen THEN None
             ELSE Some(Slice(s, left, right), Slice(q, left, right))

----------------------------------------------------------------------------
(* C3: whenever trim_record returns a kept result, the returned sequence   *)
(* and quality are at least min_len long and no longer than the input; a   *)
(* read whose trimmed span is shorter than min_len is dropped.             *)
TrimLengthBounds ==
    Returned =>
        /\ res.tag = "Some" =>
              /\ Len(res.seq) >= min_len
              /\ Len(res.qual) >= min_len
              /\ Len(res.seq) <= Len(seq)
              /\ Len(res.qual) <= Len(qual)
        /\ LET lefts == IF window <= 1 \/ window > Len(qual)
                        THEN GoodIdx(qual, qual_thr)
                        ELSE WinStarts(qual, qual_thr, window)
               rights == IF window <= 1 \/ window > Len(qual)
                         THEN GoodIdx(qual, qual_thr)
                         ELSE WinEnds(qual, qual_thr, window)
           IN  (lefts # {} /\ MaxOf(rights) - MinOf(lefts) + 1 < min_len)
                   => res.tag = "None"

(* a kept result of exactly min_len bases, shorter than the input *)
TrimLengthBoundsWitness ==
    /\ tpc = "ret"
    /\ res.tag = "Some"
    /\ min_len > 1
    /\ Len(res.seq) = min_len
    /\ Len(res.seq) < Len(seq)

(* C4: in windowed mode (1 < window <= read length) the prefix-sum search  *)
(* gives left = the smallest window start and right = the largest window   *)
(* end whose floor mean reaches the threshold, the read is dropped when no *)
(* window qualifies, and what is kept is the contiguous range [left,right] *)
(* of sequence and quality (subject to the min_len test of C3).            *)
WindowedMatchesDefinition ==
    (Returned /\ WellFormed /\ window > 1 /\ window <= Len(qual)) =>
        LET b == WindowBounds(qual, qual_thr, window)
            lefts == WinStarts(qual, qual_thr, window)
            rights == WinEnds(qual, qual_thr, window)
        IN  /\ lefts = {} => (b.start > b.end /\ res = None)
            /\ lefts # {} => (b.start = MinOf(lefts) /\ b.end = MaxOf(rights))
            /\ res = DefOutcome(qual, seq, min_len, lefts, rights)

(* a windowed trim that cut both ends and kept a base below the threshold  *)
(* inside the range                                                        *)
WindowedMatchesDefinitionWitness ==
    /\ tpc = "ret"
    /\ WellFormed
    /\ window > 1
    /\ window <= Len(qual)
    /\ res.tag = "Some"
    /\ Len(res.qual) < Len(qual)
    /\ \E k \in 2..(Len(res.qual) - 1) : Score(res.qual[k]) < qual_thr

(* C5: in single-base mode (window <= 1) what is kept is exactly the       *)
(* inclusive span from the first to the last index whose score reaches the *)
(* threshold (subject to the min_len test of C3), and the read is dropped  *)
(* when no index has such a score.                                         *)
SingleBaseKeepsFirstToLast ==
    (Returned /\ WellFormed /\ window <= 1) =>
        LET good == GoodIdx(qual, qual_thr)
            b == SingleBaseBounds(qual, qual_thr)
        IN  /\ good = {} => res = None
            /\ (good # {} /\ Len(qual) > 0) =>
                   (b.start = MinOf(good) /\ b.end = MaxOf(good))
            /\ res.tag = "Some" =>
                   res = Some(Slice(seq, MinOf(good), MaxOf(good)),
                              Slice(qual, MinOf(good), MaxOf(good)))
            /\ res = DefOutcome(qual, seq, min_len, good, good)

(* low ends trimmed on both sides, the middle kept *)
SingleBaseKeepsFirstToLastWitness ==
    /\ tpc = "ret"
    /\ WellFormed
    /\ window <= 1
    /\ res.tag = "Some"
    /\ Len(res.qual) + 2 <= Len(qual)
    /\ Score(qual[1]) < qual_thr
    /\ Score(qual[Len(qual)]) < qual_thr

(* C6: trimming is idempotent: a second call on a kept result, with the    *)
(* same threshold, min_len and window, returns that result unchanged.      *)
TrimIdempotent == tpc = "ret2" => res2 = res

(* a second call in windowed mode on a result that the first call cut *)
TrimIdempotentWitness ==
    /\ tpc = "ret2"
    /\ window > 1
    /\ window <= Len(res.qual)
    /\ Len(res.qual) < Len(qual)
    /\ res2.tag = "Some"

(* C7: window = 1 and any window above the read length return what         *)
(* single-base mode returns, and the window-mean definition taken at       *)
(* window = 1 gives that outcome too.                                      *)
WindowOneAndOversizeAreSingleBase ==
    (Returned /\ (window = 1 \/ window > Len(qual))) =>
        /\ res = trim_record(qual, seq, qual_thr, min_len, 0)
        /\ (WellFormed /\ Len(qual) > 0) =>
               res = DefOutcome(qual, seq, min_len,
                                WinStarts(qual, qual_thr, 1), WinEnds(qual, qual_thr, 1))

(* an oversized window on a read that single-base trimming cuts *)
WindowOneAndOversizeAreSingleBaseWitness ==
    /\ tpc = "ret"
    /\ window > Len(qual)
    /\ window > 1
    /\ res.tag = "Some"
    /\ Len(res.qual) < Len(qual)

(* C8: unequal lengths of quality and sequence, or an empty one, make      *)
(* trim_record return drop: no panic and no kept pair.                     *)
UnequalOrEmptyIsDropped ==
    (Returned /\ (Len(qual) # Len(seq) \/ Len(qual) = 0 \/ Len(seq) = 0)) =>
        res = None

(* C9 as stated: every read whose scores all reach the threshold and whose *)
(* length is at least min_len comes back unchanged, for every window.      *)
AllGoodReturnedUnchangedAnyRead ==
    (/\ Returned
     /\ WellFormed
     /\ \A k \in 1..Len(qual) : Score(qual[k]) >= qual_thr
     /\ Len(qual) >= min_len) =>
        res = Some(seq, qual)

(* C9 amended: every non-empty read whose scores all reach the threshold   *)
(* and whose length is at least min_len comes back unchanged, in           *)
(* single-base mode and for every window size.                             *)
AllGoodReturnedUnchanged ==
    (/\ Returned
     /\ WellFormed
     /\ Len(qual) > 0
     /\ \A k \in 1..Len(qual) : Score(qual[k]) >= qual_thr
     /\ Len(qual) >= min_len) =>
        res = Some(seq, qual)

(* an all-good read of several bases through the windowed branch *)
AllGoodReturnedUnchangedWitness ==
    /\ tpc = "ret"
    /\ WellFormed
    /\ window > 1
    /\ window < Len(qual)
    /\ qual_thr > 0
    /\ \A k \in 1..Len(qual) : Score(qual[k]) >= qual_thr
    /\ \E k \in 1..Len(qual) : Score(qual[k]) = qual_thr
    /\ res = Some(seq, qual)

----------------------------------------------------------------------------
(***************************************************************************)
(* open_input, src/src/io_utils.rs lines 6-29                              *)
(*                                                                         *)
(* The origin is a byte sequence behind File (a regular file) or           *)
(* io::stdin() (a pipe).  One read() on a regular file returns as many     *)
(* bytes as were asked for, or all that remain; one read() on a pipe       *)
(* returns any non-empty prefix of them (std::io::Read: fewer bytes than   *)
(* asked for is not an end of stream).  BufReader::fill_buf issues one     *)
(* read() when its buffer is empty and consumes nothing.                   *)
(***************************************************************************)
MaxOrigin == 5
(* capacity of the BufReader (8 KiB in std), scaled down *)
BufCap == 3
(* largest request of the downstream reader *)
MaxReq == 3

(* the gzip magic number, io_utils.rs lines 10 and 21 *)
GzMagic1 == 31
GzMagic2 == 139

ByteVals == {1, 31, 65, 139}

MinNat(a, b) == IF a < b THEN a ELSE b

(* sizes one read() of the inner reader may return for a request of req bytes *)
InnerReadSizes(req) ==
    LET mx == MinNat(req, Len(origin) - inner_pos)
    IN  IF mx = 0 THEN {0}
        ELSE IF path_kind = "stdin" THEN 1..mx
        ELSE {mx}

(* lines 10 and 21: buf.len() >= 2 && buf[0] == 0x1f && buf[1] == 0x8b *)
LooksGz(buf) == Len(buf) >= 2 /\ buf[1] = GzMagic1 /\ buf[2] = GzMagic2

(* MultiGzDecoder (lines 13 and 24), on a container reduced to what the    *)
(* model needs: a member is the two magic bytes, a length byte n and n     *)
(* payload bytes; members follow one another; anything else is an error.   *)
RECURSIVE Gunzip(_)
Gunzip(b) ==
    IF b = <<>> THEN [ok |-> TRUE, bytes |-> <<>>]
    ELSE IF ~LooksGz(b) \/ Len(b) < 3 THEN [ok |-> FALSE, bytes |-> <<>>]
    ELSE IF Len(b) < 3 + b[3] THEN [ok |-> FALSE, bytes |-> <<>>]
    ELSE LET rest == Gunzip(SubSeq(b, 4 + b[3], Len(b)))
         IN  IF rest.ok
             THEN [ok |-> TRUE, bytes |-> SubSeq(b, 4, 3 + b[3]) \o rest.bytes]
             ELSE rest

(* what the returned Box<dyn Read> has yielded once its input is exhausted *)
Yielded == IF is_gz THEN Gunzip(delivered) ELSE [ok |-> TRUE, bytes |-> delivered]

OpenInit ==
    /\ path_kind \in {"file", "stdin"}
    /\ origin_ok \in BOOLEAN
    /\ path_kind = "stdin" => origin_ok
    /\ origin \in SeqsUpTo(ByteVals, MaxOrigin)
    /\ ~origin_ok => origin = <<>>
    /\ inner_pos = 0
    /\ br_buf = <<>>
    /\ is_gz = FALSE
    /\ delivered = <<>>
    /\ opc = "open"
    /\ TrimIdle
    /\ PairIdle
    /\ CliIdle
    /\ SingleIdle
    /\ qual_thr = 0 /\ min_len = 0 /\ window = 0

(* lines 7-16 (path == "-") and 17-28: open, fill_buf, test the magic,     *)
(* wrap the BufReader in a decoder or return it as it is                   *)
OpenInput ==
    /\ opc = "open"
    /\ IF ~origin_ok
       THEN /\ opc' = "error"
            /\ UNCHANGED <<inner_pos, br_buf, is_gz>>
       ELSE \E n \in InnerReadSizes(BufCap) :
               /\ br_buf' = SubSeq(origin, 1, n)
               /\ inner_pos' = n
               /\ is_gz' = LooksGz(br_buf')
               /\ opc' = "reading"
    /\ UNCHANGED <<origin, path_kind, origin_ok, delivered, argVars, trimVars, pairVars, cliVars, singleVars>>

(* a read of r bytes on the BufReader by the consumer or by the decoder:   *)
(* BufReader::read takes from the buffer, refills it when it is empty, and *)
(* reads straight from the inner reader when it is empty and r >= capacity *)
ReadDown ==
    /\ opc = "reading"
    /\ \E r \in 1..MaxReq :
          IF br_buf = <<>> /\ r >= BufCap
          THEN \E n \in InnerReadSizes(r) :
                  /\ delivered' = delivered \o SubSeq(origin, inner_pos + 1, inner_pos + n)
                  /\ inner_pos' = inner_pos + n
                  /\ br_buf' = <<>>
                  /\ opc' = IF n = 0 THEN "eof" ELSE "reading"
          ELSE \E n \in (IF br_buf = <<>> THEN InnerReadSizes(BufCap) ELSE {0}) :
                  LET b == IF br_buf = <<>>
                           THEN SubSeq(origin, inner_pos + 1, inner_pos + n)
                           ELSE br_buf
                      take == MinNat(r, Len(b))
                  IN  /\ delivered' = delivered \o SubSeq(b, 1, take)
                      /\ br_buf' = SubSeq(b, take + 1, Len(b))
                      /\ inner_pos' = inner_pos + n
                      /\ opc' = IF take = 0 THEN "eof" ELSE "reading"
    /\ UNCHANGED <<origin, path_kind, origin_ok, is_gz, argVars, trimVars, pairVars, cliVars, singleVars>>

OpenNext == OpenInput \/ ReadDown

OpenSpec == OpenInit /\ [][OpenNext]_vars

----------------------------------------------------------------------------
(* C10: open_input treats an origin as gzip-compressed exactly when its    *)
(* first two bytes are 0x1F 0x8B and then yields the decompressed bytes;   *)
(* every other origin, the empty one and the one-byte one included, is     *)
(* yielded unmodified; and the detection consumes nothing: the bytes       *)
(* inspected are the first bytes delivered downstream.                     *)
Opened == opc \in {"reading", "eof"}

GzipDetectedByMagic ==
    /\ Opened => (is_gz <=> LooksGz(origin))
    /\ Opened => delivered \o br_buf = SubSeq(origin, 1, inner_pos)
    /\ opc = "eof" =>
          Yielded = IF LooksGz(origin) THEN Gunzip(origin)
                    ELSE [ok |-> TRUE, bytes |-> origin]

(* the same statement for origins opened by path (regular files) *)
GzipDetectedByMagicInFiles == path_kind = "file" => GzipDetectedByMagic

(* a gzip file read to its end and decoded *)
GzipFileDecoded ==
    /\ path_kind = "file"
    /\ opc = "eof"
    /\ is_gz
    /\ Yielded.ok
    /\ Yielded.bytes # <<>>

----------------------------------------------------------------------------
(***************************************************************************)
(* main, start-up: src/src/main.rs lines 59-156                            *)
(*                                                                         *)
(* The command line is what clap is handed: whether the positional input,  *)
(* --p1, --p2 and --output are given, and the flags --gz and --zstd.       *)
(* struct Args (lines 17-57) declares --gz and no --zstd, so Args::parse() *)
(* ends the process with a usage error when --zstd is given.  io_log lists *)
(* every open of an input and every creation of an output that main has    *)
(* attempted, in order.                                                    *)
(***************************************************************************)

(* lines 17-60: Args::parse() on a command line with or without --zstd *)
MutArgsParseKnowsZstd(zstd) == "ok"
ArgsParse(zstd) == IF zstd THEN "usage" ELSE "ok"

(* io_utils.rs lines 32-52: the three output names, here their suffixes *)
make_output_files(gz, zstd) ==
    IF gz THEN <<"_R1.fastq.gz", "_R2.fastq.gz", "_singletons.fastq.gz">>
    ELSE IF zstd THEN <<"_R1.fastq.zst", "_R2.fastq.zst", "_singletons.fastq.zst">>
    ELSE <<"_R1.fastq", "_R2.fastq", "_singletons.fastq">>

CliInit ==
    /\ has_input \in BOOLEAN
    /\ has_p1 \in BOOLEAN
    /\ has_p2 \in BOOLEAN
    /\ has_output \in BOOLEAN
    /\ cli_gz \in BOOLEAN
    /\ cli_zstd \in BOOLEAN
    /\ in1_ok \in BOOLEAN
    /\ in2_ok \in BOOLEAN
    /\ out_ok \in BOOLEAN
    /\ io_log = <<>>
    /\ mpc = "parse"
    /\ m_exit = "-"
    /\ TrimIdle
    /\ PairIdle
    /\ OpenIdle
    /\ SingleIdle
    /\ qual_thr = 0 /\ min_len = 0 /\ window = 0

Exit(status) == mpc' = "exit" /\ m_exit' = status

(* line 60 *)
ParseArgs ==
    /\ mpc = "parse"
    /\ IF ArgsParse(cli_zstd) = "usage"
       THEN Exit("2")
       ELSE mpc' = "match" /\ UNCHANGED m_exit
    /\ UNCHANGED <<cmdVars, io_log, argVars, trimVars, pairVars, openVars, singleVars>>

(* lines 63, 64, 113 and 257-260: match (args.input, args.p1, args.p2) *)
MatchMode ==
    /\ mpc = "match"
    /\ IF has_input /\ ~has_p1 /\ ~has_p2
       THEN mpc' = "s_open" /\ UNCHANGED m_exit
       ELSE IF ~has_input /\ has_p1 /\ has_p2
       THEN mpc' = "p_output" /\ UNCHANGED m_exit
       ELSE Exit("2")
    /\ UNCHANGED <<cmdVars, io_log, argVars, trimVars, pairVars, openVars, singleVars>>

(* line 66: open_input(&path)? *)
SingleOpen ==
    /\ mpc = "s_open"
    /\ io_log' = Append(io_log, "open input")
    /\ IF in1_ok
       THEN mpc' = "s_output" /\ UNCHANGED m_exit
       ELSE Exit("Err")
    /\ UNCHANGED <<cmdVars, argVars, trimVars, pairVars, openVars, singleVars>>

(* lines 70-76: --output is required *)
SingleOutput ==
    /\ mpc = "s_output"
    /\ IF has_output
       THEN mpc' = "s_create" /\ UNCHANGED m_exit
       ELSE Exit("2")
    /\ UNCHANGED <<cmdVars, io_log, argVars, trimVars, pairVars, openVars, singleVars>>

(* lines 78-87: File::create(out_name)? and the writer on it *)
SingleCreate ==
    /\ mpc = "s_create"
    /\ io_log' = Append(io_log, "create output")
    /\ IF out_ok
       THEN mpc' = "run" /\ UNCHANGED m_exit
       ELSE Exit("Err")
    /\ UNCHANGED <<cmdVars, argVars, trimVars, pairVars, openVars, singleVars>>

(* lines 115-121: --output is required for paired-end mode *)
PairedOutput ==
    /\ mpc = "p_output"
    /\ IF has_output
       THEN mpc' = "p_open" /\ UNCHANGED m_exit
       ELSE Exit("2")
    /\ UNCHANGED <<cmdVars, io_log, argVars, trimVars, pairVars, openVars, singleVars>>

(* lines 127-131: open_input(&p1)?, open_input(&p2)?, and both once more *)
PairedOpen ==
    /\ mpc = "p_open"
    /\ IF ~in1_ok
       THEN io_log' = io_log \o <<"open p1">> /\ Exit("Err")
       ELSE IF ~in2_ok
       THEN io_log' = io_log \o <<"open p1", "open p2">> /\ Exit("Err")
       ELSE /\ io_log' = io_log \o <<"open p1", "open p2", "open p1", "open p2">>
            /\ mpc' = "p_create"
            /\ UNCHANGED m_exit
    /\ UNCHANGED <<cmdVars, argVars, trimVars, pairVars, openVars, singleVars>>

(* lines 124 and 137-155: the names (main has no zstd flag to pass on) and *)
(* make_writer on each; the first File::create that fails ends main        *)
PairedCreate ==
    /\ mpc = "p_create"
    /\ LET names == make_output_files(cli_gz, FALSE)
       IN  IF out_ok
           THEN /\ io_log' = io_log \o [k \in 1..3 |-> "create " \o names[k]]
                /\ mpc' = "run"
                /\ UNCHANGED m_exit
           ELSE /\ io_log' = Append(io_log, "create " \o names[1])
                /\ Exit("Err")
    /\ UNCHANGED <<cmdVars, argVars, trimVars, pairVars, openVars, singleVars>>

CliNext ==
    \/ ParseArgs \/ MatchMode
    \/ SingleOpen \/ SingleOutput \/ SingleCreate
    \/ PairedOutput \/ PairedOpen \/ PairedCreate

CliSpec == CliInit /\ [][CliNext]_vars

----------------------------------------------------------------------------
----------------------------------------------------------------------------
(***************************************************************************)
(* main, single-end arm: src/src/main.rs lines 89-111                      *)
(*                                                                         *)
(* The input stream is fq1 with its iterator it1; fqw is the writer.       *)
(***************************************************************************)

(* lines 98-106: write the trimmed record and count it, or count a drop *)
RouteSingle(rec, t, fault) ==
    IF t.tag = "Panic" THEN [w |-> <<>>, kept |-> 0, dropped |-> 0, result |-> "Panic"]
    ELSE IF t.tag = "Some"
    THEN IF fault = 1 THEN [w |-> <<>>, kept |-> 0, dropped |-> 0, result |-> "WriteErr"]
         ELSE [w |-> <<Entry(rec, t)>>, kept |-> 1, dropped |-> 0, result |-> "-"]
    ELSE [w |-> <<>>, kept |-> 0, dropped |-> 1, result |-> "-"]

SingleInit ==
    /\ \E a \in PairArgs :
          qual_thr = a.thr /\ min_len = a.min_len /\ window = a.window
    /\ \E q1 \in SeqsUpTo(PoolQuals, MaxReads) : fq1 = Stream("R1", q1)
    /\ err1 \in BOOLEAN
    /\ fq2 = <<>> /\ err2 = FALSE
    /\ it1 = 0 /\ it2 = 0
    /\ w_r1 = <<>> /\ w_r2 = <<>> /\ w_s = <<>>
    /\ pairs_total = 0 /\ pairs_kept = 0 /\ pairs_dropped = 0
    /\ singletons = 0 /\ read_r1 = 0 /\ read_r2 = 0
    /\ ppc = "sloop" /\ exit_res = "-" /\ warned = FALSE /\ arms = <<>>
    /\ fqw = <<>> /\ kept = 0 /\ dropped = 0 /\ read_count = 0 /\ base_count = 0
    /\ TrimIdle
    /\ OpenIdle
    /\ CliIdle

(* lines 94-107: one iteration of for result in fq.records() *)
SingleRow ==
    /\ ppc = "sloop"
    /\ \E n1 \in {NextItem(fq1, err1, it1)} :
          /\ n1.some
          /\ it1' = it1 + 1
          /\ IF ~n1.ok
             THEN /\ exit_res' = "ReadErr"
                  /\ ppc' = "exit"
                  /\ UNCHANGED singleVars
             ELSE /\ read_count' = read_count + 1
                  /\ base_count' = base_count + Len(n1.rec.seq)
                  /\ \E fault \in {0, 1}, t1 \in {Trim(n1.rec)} :
                        \E d \in {RouteSingle(n1.rec, t1, fault)} :
                           /\ fqw' = fqw \o d.w
                           /\ kept' = kept + d.kept
                           /\ dropped' = dropped + d.dropped
                           /\ exit_res' = d.result
                           /\ ppc' = IF d.result = "-" THEN "sloop" ELSE "exit"
    /\ UNCHANGED <<cliVars, openVars, argVars, trimVars, streamVars, it2, sinkVars,
                   counterVars, warned, arms>>

(* lines 109-111 and 263-266: the stream is exhausted; print the counts, Ok(()) *)
SingleReport ==
    /\ ppc = "sloop"
    /\ ~NextItem(fq1, err1, it1).some
    /\ exit_res' = "Ok"
    /\ ppc' = "exit"
    /\ UNCHANGED <<cliVars, singleVars, openVars, argVars, trimVars, streamVars, it1, it2,
                   sinkVars, counterVars, warned, arms>>

SingleNext == SingleRow \/ SingleReport

(* a run of main past its start-up, in single-end or in paired mode *)
RunInit == PairInit \/ SingleInit
RunNext == PairNext \/ SingleNext
RunSpec == RunInit /\ [][RunNext]_vars

----------------------------------------------------------------------------
(* C12: output order preserves input order within each output stream: in   *)
(* single-end mode and in the R1 and R2 sinks the records written are      *)
(* records of that one input, in increasing row order; in the singleton    *)
(* sink a record written earlier never has a greater row than one written  *)
(* later; and a sink only ever grows at its end.                           *)
RowOf(e) == e.id[2]
SideOf(e) == e.id[1]

RowsIncrease(sink) ==
    \A i, j \in 1..Len(sink) : i < j => RowOf(sink[i]) < RowOf(sink[j])
RowsNeverDecrease(sink) ==
    \A i, j \in 1..Len(sink) : i < j => RowOf(sink[i]) <= RowOf(sink[j])
AllFrom(sink, side) == \A i \in 1..Len(sink) : SideOf(sink[i]) = side
IsPrefix(a, b) == Len(a) <= Len(b) /\ a = SubSeq(b, 1, Len(a))

SinksOrdered ==
    /\ RowsIncrease(fqw) /\ AllFrom(fqw, "R1")
    /\ RowsIncrease(w_r1) /\ AllFrom(w_r1, "R1")
    /\ RowsIncrease(w_r2) /\ AllFrom(w_r2, "R2")
    /\ RowsNeverDecrease(w_s)

SinksAppendOnly ==
    /\ IsPrefix(fqw, fqw')
    /\ IsPrefix(w_r1, w_r1')
    /\ IsPrefix(w_r2, w_r2')
    /\ IsPrefix(w_s, w_s')

OutputKeepsInputOrder == []SinksOrdered /\ [][SinksAppendOnly]_vars

(* a paired run that wrote a pair and then singletons of both inputs, the *)
(* R2 one before the R1 one                                               *)
OutputKeepsInputOrderWitness ==
    /\ ppc = "exit"
    /\ exit_res = "Ok"
    /\ Len(w_r1) >= 1
    /\ Len(w_s) >= 2
    /\ \E i, j \in 1..Len(w_s) :
          i < j /\ SideOf(w_s[i]) = "R2" /\ SideOf(w_s[j]) = "R1"

(* a paired run that wrote two pairs and a singleton *)
TwoPairsWrittenWitness ==
    /\ ppc = "exit"
    /\ exit_res = "Ok"
    /\ Len(w_r1) >= 2
    /\ Len(w_r2) >= 2
    /\ Len(w_s) >= 1

(* a single-end run that dropped a record between two it wrote *)
SingleEndGapWitness ==
    /\ ppc = "exit"
    /\ exit_res = "Ok"
    /\ Len(fqw) = 2
    /\ RowOf(fqw[1]) = 1
    /\ RowOf(fqw[2]) = 3

----------------------------------------------------------------------------
(* main runs on one thread and every iteration of the loop is a step the   *)
(* process takes: the paired run under weak fairness of its steps          *)
FairSpec == Spec /\ WF_vars(PairNext)

(* C13: for finite, error-free paired streams of lengths m and n the       *)
(* lock-step loop stops, and stops only when both streams are exhausted;   *)
(* at Done read_r1 = m, read_r2 = n and pairs_total = min(m, n); with      *)
(* m = n = N and every record surviving trimming, pairs_kept = N,          *)
(* singletons = 0 and there is no mismatch warning.                        *)
ErrorFree == ~err1 /\ ~err2
Done == ppc = "exit" /\ exit_res = "Ok"
LoopLeft == ppc = "report" \/ Done
WriteFailed == ppc = "exit" /\ exit_res = "WriteErr"
AllSurvive ==
    /\ \A k \in 1..Len(fq1) : Trim(fq1[k]).tag = "Some"
    /\ \A k \in 1..Len(fq2) : Trim(fq2[k]).tag = "Some"

StopsOnlyWhenExhausted ==
    (ErrorFree /\ LoopLeft) => it1 = Len(fq1) /\ it2 = Len(fq2)

CountsAtDone ==
    (ErrorFree /\ Done) =>
        /\ read_r1 = Len(fq1)
        /\ read_r2 = Len(fq2)
        /\ pairs_total = MinOf({Len(fq1), Len(fq2)})
        /\ (Len(fq1) = Len(fq2) /\ AllSurvive) =>
              /\ pairs_kept = Len(fq1)
              /\ singletons = 0
              /\ ~warned

UnequalLengthsDoneWitness ==
    /\ ErrorFree
    /\ Done
    /\ Len(fq1) = 1
    /\ Len(fq2) = MaxReads
    /\ read_r2 = MaxReads
    /\ pairs_total = 1
    /\ warned

----------------------------------------------------------------------------
(* C14: the paired outputs stay in sync. After every completed row (every  *)
(* state of the paired run but the one a failed write leaves) the R1 sink  *)
(* and the R2 sink each hold pairs_kept records, their k-th records come   *)
(* from the same input row, and the singleton sink holds singletons        *)
(* records; a row of the A-only or B-only arm leaves the R1 and R2 sinks   *)
(* as they were.                                                           *)
RowsCompleted == exit_res # "WriteErr"

SinksInSync ==
    RowsCompleted =>
        /\ Len(w_r1) = pairs_kept
        /\ Len(w_r2) = pairs_kept
        /\ \A k \in 1..pairs_kept :
              /\ RowOf(w_r1[k]) = RowOf(w_r2[k])
              /\ SideOf(w_r1[k]) = "R1"
              /\ SideOf(w_r2[k]) = "R2"
        /\ Len(w_s) = singletons

LoneArmTaken ==
    /\ Len(arms') = Len(arms) + 1
    /\ arms'[Len(arms')] \in {"AOnly", "BOnly"}

LoneArmsLeaveR1R2 == LoneArmTaken => (w_r1' = w_r1 /\ w_r2' = w_r2)

PairedOutputsInSync == []SinksInSync /\ [][LoneArmsLeaveR1R2]_vars

(* rows 1 and 3 written as pairs, row 2 as a singleton, the loop still on *)
PairedOutputsInSyncWitness ==
    /\ ppc = "loop"
    /\ pairs_kept = 2
    /\ Len(w_r1) = 2
    /\ RowOf(w_r1[2]) = 3
    /\ RowOf(w_r2[2]) = 3
    /\ singletons = 1
    /\ Len(w_s) = 1

(* two pairs written, then a record without a partner written as singleton *)
LoneArmSingletonWitness ==
    /\ Len(arms) = 3
    /\ arms[3] \in {"AOnly", "BOnly"}
    /\ RowsCompleted
    /\ Len(w_r1) = 2
    /\ Len(w_r2) = 2
    /\ Len(w_s) = 1
    /\ RowOf(w_s[1]) = 3

(* the state a failed second write leaves: R1 one record ahead of R2 *)
FailedWriteLeavesR1Ahead ==
    /\ exit_res = "WriteErr"
    /\ Len(w_r1) = Len(w_r2) + 1

=============================================================================
